---- MODULE Spec2Model ----
(***************************************************************************)
(* The subscription / entitlement engine of SPECTRUM-API: the account      *)
(* document of one user in the `users` collection, the request handlers of *)
(* src/routes/task.js that evaluate and consume its quota, and the         *)
(* handlers of src/routes/payments.js that activate a package on it.       *)
(*                                                                         *)
(* Every handler is an async function.  Between two awaits its code runs   *)
(* without interruption; at an await any other request may run.  A handler *)
(* is therefore a process whose steps are its awaited store operations,    *)
(* each taken together with the synchronous code that follows it up to the *)
(* next await.  The local constants of a handler (userData, isTrialPeriod, *)
(* expiryDate ...) live in the request record req[r].                      *)
(*                                                                         *)
(* Values that may be undefined/null in JavaScript are kept as sets: {}    *)
(* for undefined or null, {v} for the value v.  Dates are integers         *)
(* yyyymmdd (the day is the unit of time; an ISO string written by         *)
(* toISOString() and read back by new Date() is the same instant).         *)
(***************************************************************************)
EXTENDS Integers, Sequences, FiniteSets, TLC

\* ------------------------------------------------------------------ bounds
\* Number of requests served in one behaviour (all of them may overlap).
MaxReq == 2
\* Largest quota a package of the model grants (packageLimit, maxGroup).
MaxQuota == 2

\* --------------------------------------------------------- optional values
Null == {}
Some(v) == {v}
IsSet(x) == x # {}
Get(x) == CHOOSE v \in x : TRUE
\* JavaScript truthiness of a number-or-undefined: false for undefined, null, 0.
Truthy(x) == x # {} /\ Get(x) # 0
\* x || 0
OrZero(x) == IF Truthy(x) THEN Get(x) ELSE 0

Min(a, b) == IF a < b THEN a ELSE b

\* ------------------------------------------------------------------- dates
Year(d) == d \div 10000
Month(d) == (d \div 100) % 100
Day(d) == d % 100
MkDate(y, m, d) == y * 10000 + m * 100 + d

IsLeap(y) == (y % 4 = 0 /\ y % 100 # 0) \/ y % 400 = 0
DaysInMonth(y, m) ==
  IF m = 2 THEN (IF IsLeap(y) THEN 29 ELSE 28)
  ELSE IF m \in {4, 6, 9, 11} THEN 30 ELSE 31

\* The normalisation every Date setter applies: a day past the end of the
\* month rolls over into the following month(s).
RECURSIVE RollDays(_, _, _)
RollDays(y, m, d) ==
  IF d <= DaysInMonth(y, m) THEN MkDate(y, m, d)
  ELSE IF m = 12 THEN RollDays(y + 1, 1, d - DaysInMonth(y, m))
       ELSE RollDays(y, m + 1, d - DaysInMonth(y, m))

\* date.setFullYear(date.getFullYear() + n)
SetFullYear(date, n) == RollDays(Year(date) + n, Month(date), Day(date))
\* date.setMonth(date.getMonth() + n)
SetMonth(date, n) ==
  LET m0 == Month(date) - 1 + n
  IN  RollDays(Year(date) + (m0 \div 12), (m0 % 12) + 1, Day(date))
\* date.setDate(date.getDate() + n)
SetDate(date, n) == RollDays(Year(date), Month(date), Day(date) + n)

\* ------------------------------------------------------- duration strings
\* A string is a tuple of one-character strings.
Digits == {"0", "1", "2", "3", "4", "5", "6", "7", "8", "9"}
DigitVal(c) ==
  CASE c = "0" -> 0 [] c = "1" -> 1 [] c = "2" -> 2 [] c = "3" -> 3 [] c = "4" -> 4
    [] c = "5" -> 5 [] c = "6" -> 6 [] c = "7" -> 7 [] c = "8" -> 8 [] c = "9" -> 9

\* s.includes(t)
Includes(s, t) ==
  \E i \in 1..(Len(s) - Len(t) + 1) : SubSeq(s, i, i + Len(t) - 1) = t

\* s.match(/\d+/)?.[0] : the leftmost maximal run of digits, <<>> when none.
MatchDigits(s) ==
  LET starts == {i \in 1..Len(s) : s[i] \in Digits}
  IN  IF starts = {} THEN <<>>
      ELSE LET i == CHOOSE k \in starts : \A j \in starts : k <= j
               j == CHOOSE k \in i..Len(s) :
                      /\ \A l \in i..k : s[l] \in Digits
                      /\ (k = Len(s) \/ s[k + 1] \notin Digits)
           IN  SubSeq(s, i, j)

\* parseInt of a string of digits
RECURSIVE ParseInt(_)
ParseInt(ds) ==
  IF ds = <<>> THEN 0
  ELSE 10 * ParseInt(SubSeq(ds, 1, Len(ds) - 1)) + DigitVal(ds[Len(ds)])

DefaultDuration == <<"1", " ", "y", "e", "a", "r">>

\* A count that is 1 whenever the string holds no integer.
DurationCountOne(duration, dflt) ==
  IF MatchDigits(duration) = <<>> THEN 1 ELSE ParseInt(MatchDigits(duration))

\* parseInt(duration.match(/\d+/)?.[0] || dflt)
DurationCount(duration, dflt) ==
  IF MatchDigits(duration) = <<>> THEN dflt ELSE ParseInt(MatchDigits(duration))

\* The expiry date computed from packageData.duration at currentDate.
ExpiryDate(currentDate, pkgDuration) ==
  LET duration == IF IsSet(pkgDuration) /\ Get(pkgDuration) # <<>>
                  THEN Get(pkgDuration) ELSE DefaultDuration
  IN  IF Includes(duration, <<"y", "e", "a", "r">>)
        THEN SetFullYear(currentDate, DurationCount(duration, 1))
      ELSE IF Includes(duration, <<"m", "o", "n", "t", "h">>)
        THEN SetMonth(currentDate, DurationCount(duration, 1))
      ELSE IF Includes(duration, <<"d", "a", "y">>)
        THEN SetDate(currentDate, DurationCount(duration, 30))
      ELSE SetFullYear(currentDate, 1)


\* ---------------------------------------------------------- package store
\* The `packages` collection.  The handlers modelled here only read it.
PackageIds == {"PKG-FREE", "PKG-PRO", "PKG-MAX"}
NoPackage == "PKG-GONE"

\* The documents of the collection: packageId -> package document.
PackageStore ==
  [p \in PackageIds |->
     CASE p = "PKG-FREE" ->
            [packageId |-> "PKG-FREE", price |-> 0,
             duration |-> Some(<<"1", " ", "m", "o", "n", "t", "h">>),
             packageLimit |-> Some(1), storage |-> Some(5),
             maxGroup |-> Some(1), trialPosts |-> Some(1)]
       [] p = "PKG-PRO" ->
            [packageId |-> "PKG-PRO", price |-> 10,
             duration |-> Some(<<"1", " ", "y", "e", "a", "r">>),
             packageLimit |-> Some(MaxQuota), storage |-> Some(10),
             maxGroup |-> Some(MaxQuota), trialPosts |-> Some(1)]
       [] OTHER ->
            [packageId |-> "PKG-MAX", price |-> 20,
             duration |-> Some(<<"3", "0", " ", "d", "a", "y", "s">>),
             packageLimit |-> Null, storage |-> Null,
             maxGroup |-> Some(1), trialPosts |-> Null]]

\* ------------------------------------------------------------------ state
UserId == "u1"
NoUser == "u0"
PostIds == {"p1", "p2"}
NoPost == "p0"
\* The instants at which requests are served, in order.
Clock == <<20240131, 20240302>>
\* Number of tasks the LLM may return for a post.
TaskCounts == {0, 2}

VARIABLES
  packages,       \* the `packages` collection: packageId -> package document
  user,           \* the account document of UserId in `users`
  posts,          \* users/UserId/posts: postId -> post document
  intents,        \* the payment intents held by Stripe
  payments,       \* the `payments` collection, in insertion order
  subscriptions,  \* the `subscriptions` collection, in insertion order
  tick,           \* index into Clock of the current time
  req             \* the requests: request -> handler state and response

vars == <<packages, user, posts, intents, payments, subscriptions, tick, req>>

\* db.collection("packages").where("packageId", "==", packageId).get()
PackageData(packageId) ==
  IF packageId \in DOMAIN packages THEN Some(packages[packageId]) ELSE Null

now == Clock[tick]

Req == 1..MaxReq

\* The account document as /register creates it: of the fields of the
\* subscription only updatedAt is set.
FreshAccount ==
  [subscriptionStatus |-> Null, packageId |-> Null, subscriptionDate |-> Null,
   expiryDate |-> Null, remainingPosts |-> Null, remainingPrompts |-> Null,
   trialPostsUsed |-> Null, trialPackage |-> Null, maxGroup |-> Null,
   storage |-> Null, updatedAt |-> Some(Clock[1])]

FreshPost == [taskGenerated |-> FALSE, total_tasks |-> Null, tasks |-> 0]

\* req.body of the two update endpoints: the fields it names, their values,
\* and whether its firstName, lastName, email and profilePicture pass the
\* validation.  The profile fields themselves are left out of the account.
NoUpdates == [valid |-> TRUE, fields |-> {}, values |-> FreshAccount]

IdleReq ==
  [pc |-> "idle", op |-> "", uid |-> "", postId |-> "", packageId |-> "",
   amount |-> 0, intent |-> 0, ver |-> 0, userData |-> Null, now |-> 0,
   stamp |-> 0, isTrialPeriod |-> FALSE, tasks |-> 0, expiryDate |-> 0,
   updates |-> NoUpdates, status |-> 0, error |-> ""]

\* Requests are interchangeable: they are started in the order of their index.
CanStart(r) ==
  /\ req[r].pc = "idle"
  /\ \A q \in Req : q < r => req[q].pc # "idle"

\* res.status(status).json({error, ...}) ends the handler.
\* What the handler worked on stays in the record; its other locals are dropped.
Respond(q, status, error) ==
  [IdleReq EXCEPT !.pc = "done", !.op = q.op, !.ver = q.ver, !.uid = q.uid,
                  !.postId = q.postId, !.packageId = q.packageId,
                  !.amount = q.amount, !.userData = q.userData, !.now = q.now,
                  !.isTrialPeriod = q.isTrialPeriod,
                  !.status = status, !.error = error]

\* -------------------------------------------------- Subscription Evaluator
\* The checks without the status check.
SubscriptionDenialNoStatus(userData, t) ==
  IF IsSet(userData.expiryDate) /\ Get(userData.expiryDate) < t
    THEN "Subscription has expired"
  ELSE ""

\* The checks without the expiry check.
SubscriptionDenialNoExpiry(userData, t) ==
  IF userData.subscriptionStatus # Some("active")
    THEN "Active subscription required"
  ELSE ""

\* The checks with an expiry date equal to now taken as expired.
SubscriptionDenialInclusive(userData, t) ==
  IF userData.subscriptionStatus # Some("active")
    THEN "Active subscription required"
  ELSE IF IsSet(userData.expiryDate) /\ Get(userData.expiryDate) <= t
    THEN "Subscription has expired"
  ELSE ""

\* The two checks every entitlement handler makes on userData; "" = passed.
SubscriptionDenial(userData, t) ==
  IF userData.subscriptionStatus # Some("active")
    THEN "Active subscription required"
  ELSE IF IsSet(userData.expiryDate) /\ Get(userData.expiryDate) < t
    THEN "Subscription has expired"
  ELSE ""

IsTrialPeriod(userData) ==
  /\ IsSet(userData.subscriptionDate)
  /\ IsSet(userData.packageId)
  /\ (~IsSet(userData.expiryDate)
        \/ Get(userData.subscriptionDate) > Get(userData.expiryDate))

\* A trial check that also refuses when no package matches.
TrialLimitExceededClosed(userData) ==
  LET trialPostsUsed == OrZero(userData.trialPostsUsed)
      package == PackageData(Get(userData.packageId))
  IN  \/ ~IsSet(package)
      \/ trialPostsUsed >= OrZero(Get(package).trialPosts)

\* The trial check made once the package query has answered.
TrialLimitExceeded(userData) ==
  LET trialPostsUsed == OrZero(userData.trialPostsUsed)
      package == PackageData(Get(userData.packageId))
  IN  /\ IsSet(package)
      /\ trialPostsUsed >= OrZero(Get(package).trialPosts)

\* A check that lets a counter of 0 through.
NoRemainingUnset(counter) == ~IsSet(counter)

\* !userData.remaining || userData.remaining <= 0
NoRemaining(counter) == ~Truthy(counter) \/ Get(counter) <= 0

\* The remaining variables, for the UNCHANGED of each step.
others == <<packages, intents, payments, subscriptions, tick>>

\* A query that finds a document whatever the uid.
UserFoundAlways(uid) == TRUE

\* db.collection('users').where('user_id', '==', uid).get(): the account of
\* UserId is the only document; its user_id, uid and document id are UserId.
UserFound(uid) == uid = UserId

\* --------------------------------------------- GET /get-storage/:userId
GetStorage(r, uid) ==
  /\ CanStart(r)
  /\ LET q == [req[r] EXCEPT !.op = "get-storage", !.uid = uid]
         q2 == [q EXCEPT !.userData = Some(user), !.now = now]
         denial == SubscriptionDenial(user, now)
     IN  req' = [req EXCEPT ![r] =
                   IF ~UserFound(uid) THEN Respond(q, 404, "User not found")
                   ELSE IF denial # "" THEN Respond(q2, 403, denial)
                   ELSE Respond(q2, 200, "")]
  /\ UNCHANGED <<user, posts, others>>

\* ------------------------------------------- POST /generate-group/:userId
\* The read and the checks, with updatedAt written whatever their outcome.
GroupReadUserStamping(r, uid) ==
  /\ CanStart(r)
  /\ LET q == [req[r] EXCEPT !.op = "generate-group", !.uid = uid]
         q2 == [q EXCEPT !.userData = Some(user), !.now = now]
         denial == SubscriptionDenial(user, now)
         maxGroup == OrZero(user.maxGroup)
     IN  req' = [req EXCEPT ![r] =
                   IF ~UserFound(uid) THEN Respond(q, 404, "User not found")
                   ELSE IF denial # "" THEN Respond(q2, 403, denial)
                   ELSE IF maxGroup <= 0
                     THEN Respond(q2, 403, "Group creation not allowed")
                   ELSE [q2 EXCEPT !.pc = "update"]]
  /\ user' = [user EXCEPT !.updatedAt = Some(now)]
  /\ UNCHANGED <<posts, others>>

\* await userQuery.get(), then the checks up to the update call.
GroupReadUser(r, uid) ==
  /\ CanStart(r)
  /\ LET q == [req[r] EXCEPT !.op = "generate-group", !.uid = uid]
         q2 == [q EXCEPT !.userData = Some(user), !.now = now]
         denial == SubscriptionDenial(user, now)
         maxGroup == OrZero(user.maxGroup)
     IN  req' = [req EXCEPT ![r] =
                   IF ~UserFound(uid) THEN Respond(q, 404, "User not found")
                   ELSE IF denial # "" THEN Respond(q2, 403, denial)
                   ELSE IF maxGroup <= 0
                     THEN Respond(q2, 403, "Group creation not allowed")
                   ELSE [q2 EXCEPT !.pc = "update"]]
  /\ UNCHANGED <<user, posts, others>>

\* await userDocRef.update({maxGroup: maxGroup - 1, updatedAt}), then 200.
GroupUpdate(r) ==
  /\ req[r].op = "generate-group" /\ req[r].pc = "update"
  /\ LET userData == Get(req[r].userData)
     IN  user' = [user EXCEPT !.maxGroup = Some(OrZero(userData.maxGroup) - 1),
                              !.updatedAt = Some(req[r].now)]
  /\ req' = [req EXCEPT ![r] = Respond(req[r], 200, "")]
  /\ UNCHANGED <<posts, others>>

\* -------------------------------------------- POST /generate-post/:userId
PostReadUser(r, uid) ==
  /\ CanStart(r)
  /\ LET q == [req[r] EXCEPT !.op = "generate-post", !.uid = uid]
         q2 == [q EXCEPT !.userData = Some(user), !.now = now,
                         !.isTrialPeriod = IsTrialPeriod(user)]
         denial == SubscriptionDenial(user, now)
     IN  req' = [req EXCEPT ![r] =
                   IF ~UserFound(uid) THEN Respond(q, 404, "User not found")
                   ELSE IF denial # "" THEN Respond(q2, 403, denial)
                   ELSE IF IsTrialPeriod(user) THEN [q2 EXCEPT !.pc = "package"]
                   ELSE IF NoRemaining(user.remainingPosts)
                     THEN Respond(q2, 403, "No remaining posts available")
                   ELSE [q2 EXCEPT !.pc = "update"]]
  /\ UNCHANGED <<user, posts, others>>

\* Trial period: await packageQuery.get(), the trial check, and the response;
\* nothing is written on this path.
PostReadPackage(r) ==
  /\ req[r].op = "generate-post" /\ req[r].pc = "package"
  /\ req' = [req EXCEPT ![r] =
               IF TrialLimitExceeded(Get(req[r].userData))
                 THEN Respond(req[r], 403, "Trial posts limit exceeded")
               ELSE Respond(req[r], 200, "")]
  /\ UNCHANGED <<user, posts, others>>

\* An update that takes the post out of both counters.
PostUpdateBoth(r) ==
  /\ req[r].op = "generate-post" /\ req[r].pc = "update"
  /\ LET userData == Get(req[r].userData)
     IN  user' = [user EXCEPT !.remainingPosts = Some(Get(userData.remainingPosts) - 1),
                              !.remainingPrompts = Some(OrZero(userData.remainingPrompts) - 1),
                              !.updatedAt = Some(req[r].now)]
  /\ req' = [req EXCEPT ![r] = Respond(req[r], 200, "")]
  /\ UNCHANGED <<posts, others>>

\* Paid: await userDocRef.update({remainingPosts: userData.remainingPosts - 1}).
PostUpdate(r) ==
  /\ req[r].op = "generate-post" /\ req[r].pc = "update"
  /\ LET userData == Get(req[r].userData)
     IN  user' = [user EXCEPT !.remainingPosts = Some(Get(userData.remainingPosts) - 1),
                              !.updatedAt = Some(req[r].now)]
  /\ req' = [req EXCEPT ![r] = Respond(req[r], 200, "")]
  /\ UNCHANGED <<posts, others>>

\* ------------------------------------ GET /generate-tasks/:userId/:postId
\* The read of the post without the taskGenerated check.
TasksReadPostAgain(r, uid, postId) ==
  /\ CanStart(r)
  /\ LET q == [req[r] EXCEPT !.op = "generate-tasks", !.uid = uid, !.postId = postId]
     IN  req' = [req EXCEPT ![r] =
                   IF ~(uid = UserId /\ postId \in DOMAIN posts)
                     THEN Respond(q, 404, "Post not found")
                   ELSE [q EXCEPT !.pc = "user"]]
  /\ UNCHANGED <<user, posts, others>>

\* await postDoc.get(): users/uid/posts/postId.
TasksReadPost(r, uid, postId) ==
  /\ CanStart(r)
  /\ LET q == [req[r] EXCEPT !.op = "generate-tasks", !.uid = uid, !.postId = postId]
     IN  req' = [req EXCEPT ![r] =
                   IF ~(uid = UserId /\ postId \in DOMAIN posts)
                     THEN Respond(q, 404, "Post not found")
                   ELSE IF posts[postId].taskGenerated
                     THEN Respond(q, 200, "Tasks already generated")
                   ELSE [q EXCEPT !.pc = "user"]]
  /\ UNCHANGED <<user, posts, others>>

TasksReadUser(r) ==
  /\ req[r].op = "generate-tasks" /\ req[r].pc = "user"
  /\ LET q == req[r]
         q2 == [q EXCEPT !.userData = Some(user), !.now = now,
                         !.isTrialPeriod = IsTrialPeriod(user)]
         denial == SubscriptionDenial(user, now)
     IN  req' = [req EXCEPT ![r] =
                   IF ~UserFound(q.uid) THEN Respond(q, 404, "User not found")
                   ELSE IF denial # "" THEN Respond(q2, 403, denial)
                   ELSE IF IsTrialPeriod(user) THEN [q2 EXCEPT !.pc = "package"]
                   ELSE IF NoRemaining(user.remainingPrompts)
                     THEN Respond(q2, 403, "No remaining prompts available")
                   ELSE [q2 EXCEPT !.pc = "generate"]]
  /\ UNCHANGED <<user, posts, others>>

TasksReadPackage(r) ==
  /\ req[r].op = "generate-tasks" /\ req[r].pc = "package"
  /\ req' = [req EXCEPT ![r] =
               IF TrialLimitExceeded(Get(req[r].userData))
                 THEN Respond(req[r], 403, "Trial posts limit exceeded")
               ELSE [req[r] EXCEPT !.pc = "generate"]]
  /\ UNCHANGED <<user, posts, others>>

\* The two LLM calls.  A failed markdown call is replaced by a fallback text;
\* a failed or unparsable tasks call ends the request with success: false.
TasksGenerate(r) ==
  /\ req[r].op = "generate-tasks" /\ req[r].pc = "generate"
  /\ \/ req' = [req EXCEPT ![r] = Respond(req[r], 200, "Task generation failed")]
     \/ \E n \in TaskCounts :
          req' = [req EXCEPT ![r] = [req[r] EXCEPT !.pc = "savePost", !.tasks = n]]
  /\ UNCHANGED <<user, posts, others>>

\* await postRef.update({markdown, taskGenerated: true, total_tasks}).
TasksSavePost(r) ==
  /\ req[r].op = "generate-tasks" /\ req[r].pc = "savePost"
  /\ posts' = [posts EXCEPT ![req[r].postId] =
                 [@ EXCEPT !.taskGenerated = TRUE, !.total_tasks = Some(req[r].tasks)]]
  /\ req' = [req EXCEPT ![r] =
               [req[r] EXCEPT !.pc = IF req[r].tasks > 0 THEN "saveTasks" ELSE "limits",
                              !.stamp = now]]
  /\ UNCHANGED <<user, others>>

\* await batch.commit(): one task document per generated task.
TasksSaveTasks(r) ==
  /\ req[r].op = "generate-tasks" /\ req[r].pc = "saveTasks"
  /\ posts' = [posts EXCEPT ![req[r].postId] =
                 [@ EXCEPT !.tasks = @ + req[r].tasks]]
  /\ req' = [req EXCEPT ![r] = [req[r] EXCEPT !.pc = "limits", !.stamp = now]]
  /\ UNCHANGED <<user, others>>

\* 6. Update user limits: await userDocRef.update(...), then the 200 response.
\* The updatedAt of this update was read when the update was issued, after the
\* last of the post writes.
TasksUpdateLimits(r) ==
  /\ req[r].op = "generate-tasks" /\ req[r].pc = "limits"
  /\ LET userData == Get(req[r].userData)
     IN  user' = IF req[r].isTrialPeriod
                   THEN [user EXCEPT !.trialPostsUsed = Some(OrZero(userData.trialPostsUsed) + 1),
                                     !.updatedAt = Some(req[r].stamp)]
                 ELSE [user EXCEPT !.remainingPrompts = Some(Get(userData.remainingPrompts) - 1),
                                   !.updatedAt = Some(req[r].stamp)]
  /\ req' = [req EXCEPT ![r] = Respond(req[r], 200, "")]
  /\ UNCHANGED <<posts, others>>

\* batch.commit() rejects: the catch of step 5 answers 500; the post keeps
\* taskGenerated and total_tasks, and the limits are not updated.
TasksSaveTasksFails(r) ==
  /\ req[r].op = "generate-tasks" /\ req[r].pc = "saveTasks"
  /\ req' = [req EXCEPT ![r] =
               Respond(req[r], 500, "Failed to save data to database")]
  /\ UNCHANGED <<user, posts, others>>

\* userDocRef.update(...) rejects: the same catch answers 500 after the post
\* and the tasks were stored.
TasksUpdateLimitsFails(r) ==
  /\ req[r].op = "generate-tasks" /\ req[r].pc = "limits"
  /\ req' = [req EXCEPT ![r] =
               Respond(req[r], 500, "Failed to save data to database")]
  /\ UNCHANGED <<user, posts, others>>

\* ------------------------------------------------------------------ time
Tick ==
  /\ tick < Len(Clock)
  /\ tick' = tick + 1
  /\ UNCHANGED <<packages, user, posts, intents, payments, subscriptions, req>>

\* ------------------------------------------------ Activation Procedure
\* packageData.x ? parseInt(packageData.x) : null   (the value is a number)
LimitOrNull(x) == IF Truthy(x) THEN Some(Get(x)) ELSE Null

\* The free update without trialPackage: true.
FreeAccountUpdateNoTrial(acc, packageId, packageData, t, expiryDate) ==
  [acc EXCEPT !.subscriptionStatus = Some("active"),
              !.packageId = Some(packageId),
              !.subscriptionDate = Some(t),
              !.expiryDate = Some(expiryDate),
              !.remainingPosts = LimitOrNull(packageData.packageLimit),
              !.remainingPrompts = LimitOrNull(packageData.packageLimit),
              !.storage = Some(OrZero(packageData.storage)),
              !.maxGroup = Some(OrZero(packageData.maxGroup)),
              !.updatedAt = Some(t)]

\* The update of the free branch of POST /create-payment-intent.
FreeAccountUpdate(acc, packageId, packageData, t, expiryDate) ==
  [acc EXCEPT !.subscriptionStatus = Some("active"),
              !.packageId = Some(packageId),
              !.subscriptionDate = Some(t),
              !.expiryDate = Some(expiryDate),
              !.remainingPosts = LimitOrNull(packageData.packageLimit),
              !.remainingPrompts = LimitOrNull(packageData.packageLimit),
              !.storage = Some(OrZero(packageData.storage)),
              !.maxGroup = Some(OrZero(packageData.maxGroup)),
              !.trialPackage = Some(TRUE),
              !.updatedAt = Some(t)]

\* The update of POST /confirm-payment, third definition of the file.
PaidAccountUpdate(acc, packageId, packageData, t, expiryDate) ==
  [acc EXCEPT !.subscriptionStatus = Some("active"),
              !.packageId = Some(packageId),
              !.subscriptionDate = Some(t),
              !.expiryDate = Some(expiryDate),
              !.remainingPosts = LimitOrNull(packageData.packageLimit),
              !.remainingPrompts = LimitOrNull(packageData.packageLimit),
              !.storage = Some(OrZero(packageData.storage)),
              !.maxGroup = Some(OrZero(packageData.maxGroup)),
              !.updatedAt = Some(t)]

\* The update of POST /confirm-payment, first definition of the file:
\* packageData.packageLimit || null, and neither storage nor maxGroup.
PaidAccountUpdate1(acc, packageId, packageData, t, expiryDate) ==
  [acc EXCEPT !.subscriptionStatus = Some("active"),
              !.packageId = Some(packageId),
              !.subscriptionDate = Some(t),
              !.expiryDate = Some(expiryDate),
              !.remainingPosts = LimitOrNull(packageData.packageLimit),
              !.remainingPrompts = LimitOrNull(packageData.packageLimit),
              !.updatedAt = Some(t)]

\* The update of POST /confirm-payment, second definition of the file.
PaidAccountUpdate2(acc, packageId, t) ==
  [acc EXCEPT !.subscriptionStatus = Some("active"),
              !.packageId = Some(packageId),
              !.subscriptionDate = Some(t),
              !.updatedAt = Some(t)]

\* ----------------------------------------- POST /create-payment-intent
\* The request body: amount 0 asks for a free package.
Amounts == {0, 10}

\* Validation of the body: a request without packageId.
CreateIntentInvalid(r, uid) ==
  /\ CanStart(r)
  /\ req' = [req EXCEPT ![r] =
               Respond([req[r] EXCEPT !.op = "create-payment-intent", !.uid = uid],
                       400, "Amount, packageId, and userId are required")]
  /\ UNCHANGED <<user, posts, others>>

\* Free package: await the packages query.
CreateIntentReadPackage(r, uid, packageId) ==
  /\ CanStart(r)
  /\ LET q == [req[r] EXCEPT !.op = "create-payment-intent", !.uid = uid,
                             !.packageId = packageId, !.amount = 0]
     IN  req' = [req EXCEPT ![r] =
                   IF ~IsSet(PackageData(packageId))
                     THEN Respond(q, 400, "Package not found")
                   ELSE [q EXCEPT !.pc = "user"]]
  /\ UNCHANGED <<user, posts, others>>

\* A trial check that never rejects.
TrialUsedNever(userData) == FALSE

\* if (userData.trialPackage === true)
TrialUsed(userData) == userData.trialPackage = Some(TRUE)

\* await the user query (by user_id, then by document id), the trial check,
\* and the computation of the expiry date and of the update.
CreateIntentReadUser(r) ==
  /\ req[r].op = "create-payment-intent" /\ req[r].pc = "user"
  /\ LET q == req[r]
         packageData == Get(PackageData(q.packageId))
     IN  req' = [req EXCEPT ![r] =
                   IF ~UserFound(q.uid) THEN Respond(q, 400, "User not found")
                   ELSE IF TrialUsed(user)
                     THEN Respond([q EXCEPT !.userData = Some(user), !.now = now],
                                  400, "You have already used your trial package")
                   ELSE [q EXCEPT !.pc = "update", !.userData = Some(user),
                                  !.now = now, !.stamp = now,
                                  !.expiryDate = ExpiryDate(now, packageData.duration)]]
  /\ UNCHANGED <<user, posts, others>>

\* await userDoc.ref.update({...}).
CreateIntentUpdateUser(r) ==
  /\ req[r].op = "create-payment-intent" /\ req[r].pc = "update"
  /\ user' = FreeAccountUpdate(user, req[r].packageId,
                               Get(PackageData(req[r].packageId)),
                               req[r].stamp, req[r].expiryDate)
  /\ req' = [req EXCEPT ![r] = [req[r] EXCEPT !.pc = "subscription"]]
  /\ UNCHANGED <<posts, others>>

\* await db.collection("subscriptions").add({...}), then the 200 response.
CreateIntentAddSubscription(r) ==
  /\ req[r].op = "create-payment-intent" /\ req[r].pc = "subscription"
  /\ subscriptions' = Append(subscriptions,
       [packageId |-> req[r].packageId, userId |-> req[r].uid,
        paymentIntentId |-> Null, status |-> "active",
        expiryDate |-> Some(req[r].expiryDate), amount |-> Some(0)])
  /\ req' = [req EXCEPT ![r] = Respond(req[r], 200, "")]
  /\ UNCHANGED <<packages, user, posts, intents, payments, tick>>

\* Paid package: await stripe.paymentIntents.create({...}).
CreateIntentPaid(r, uid, packageId, amount) ==
  /\ CanStart(r)
  /\ amount # 0
  /\ intents' = Append(intents,
       [status |-> "requires_payment_method", packageId |-> packageId,
        userId |-> uid, amount |-> amount])
  /\ req' = [req EXCEPT ![r] =
               Respond([req[r] EXCEPT !.op = "create-payment-intent", !.uid = uid,
                                      !.packageId = packageId, !.amount = amount,
                                      !.intent = Len(intents) + 1],
                       200, "")]
  /\ UNCHANGED <<packages, user, posts, payments, subscriptions, tick>>

\* The payment gateway moves an intent on.
StripeStatuses == {"requires_payment_method", "requires_capture", "succeeded", "canceled"}
StripeUpdate(i, status) ==
  /\ i \in 1..Len(intents)
  /\ \/ intents[i].status = "requires_payment_method"
        /\ status \in {"requires_capture", "succeeded", "canceled"}
     \/ intents[i].status = "requires_capture"
        /\ status \in {"succeeded", "canceled"}
  /\ intents' = [intents EXCEPT ![i].status = status]
  /\ UNCHANGED <<packages, user, posts, payments, subscriptions, tick, req>>

\* ------------------------------------------------ POST /confirm-payment
\* The file defines the route three times; ver names the definition serving
\* the request.
Versions == {1, 2, 3}

\* Every status activates.
ConfirmableAlways(ver, status) == TRUE

\* The statuses for which the definition activates.
Confirmable(ver, status) ==
  IF ver = 2 THEN status = "succeeded"
  ELSE status \in {"succeeded", "requires_capture"}

\* A request without paymentIntentId.
ConfirmInvalid(r, ver) ==
  /\ CanStart(r)
  /\ req' = [req EXCEPT ![r] =
               Respond([req[r] EXCEPT !.op = "confirm-payment", !.ver = ver],
                       400, "Payment intent ID is required")]
  /\ UNCHANGED <<user, posts, others>>

\* await stripe.paymentIntents.retrieve(paymentIntentId), the status check.
ConfirmRetrieve(r, ver, i) ==
  /\ CanStart(r)
  /\ i \in 1..Len(intents)
  /\ LET q == [req[r] EXCEPT !.op = "confirm-payment", !.ver = ver, !.intent = i,
                             !.packageId = intents[i].packageId,
                             !.uid = intents[i].userId,
                             !.amount = intents[i].amount]
     IN  req' = [req EXCEPT ![r] =
                   IF ~Confirmable(ver, intents[i].status)
                     THEN Respond(q, 400, "Payment not completed")
                   ELSE IF ver = 2 THEN [q EXCEPT !.pc = "payment"]
                   ELSE [q EXCEPT !.pc = "package"]]
  /\ UNCHANGED <<user, posts, others>>

\* await the packages query; the expiry date is computed from its answer.
ConfirmReadPackage(r) ==
  /\ req[r].op = "confirm-payment" /\ req[r].pc = "package"
  /\ LET q == req[r]
         package == PackageData(q.packageId)
     IN  req' = [req EXCEPT ![r] =
                   IF ~IsSet(package) THEN Respond(q, 400, "Package not found")
                   ELSE [q EXCEPT !.pc = "payment", !.now = now,
                                  !.expiryDate = ExpiryDate(now, Get(package).duration)]]
  /\ UNCHANGED <<user, posts, others>>

\* await db.collection("payments").add({...}); createdAt is left out of the
\* payment and subscription records.
ConfirmAddPayment(r) ==
  /\ req[r].op = "confirm-payment" /\ req[r].pc = "payment"
  /\ payments' = Append(payments,
       [paymentIntentId |-> req[r].intent, packageId |-> req[r].packageId,
        userId |-> req[r].uid, amount |-> req[r].amount,
        status |-> "completed"])
  /\ req' = [req EXCEPT ![r] = [req[r] EXCEPT !.pc = "subscription"]]
  /\ UNCHANGED <<packages, user, posts, intents, subscriptions, tick>>

\* await db.collection("subscriptions").add({...}); the second definition
\* records no expiryDate and goes on to update users/userId without a query.
ConfirmAddSubscription(r) ==
  /\ req[r].op = "confirm-payment" /\ req[r].pc = "subscription"
  /\ subscriptions' = Append(subscriptions,
       [packageId |-> req[r].packageId, userId |-> req[r].uid,
        paymentIntentId |-> Some(req[r].intent), status |-> "active",
        expiryDate |-> IF req[r].ver = 2 THEN Null ELSE Some(req[r].expiryDate),
        amount |-> Null])
  /\ req' = [req EXCEPT ![r] =
               [req[r] EXCEPT !.pc = IF req[r].ver = 2 THEN "update" ELSE "user",
                              !.stamp = now]]
  /\ UNCHANGED <<packages, user, posts, intents, payments, tick>>

\* await the user query, then the limits and the update are computed.
ConfirmReadUser(r) ==
  /\ req[r].op = "confirm-payment" /\ req[r].pc = "user"
  /\ req' = [req EXCEPT ![r] =
               IF ~UserFound(req[r].uid) THEN Respond(req[r], 400, "User not found")
               ELSE [req[r] EXCEPT !.pc = "update", !.userData = Some(user),
                                   !.stamp = now]]
  /\ UNCHANGED <<user, posts, others>>

\* await userDoc.ref.update({...}), then the 200 response.  The update of a
\* document that does not exist throws, and the catch answers 500.
ConfirmUpdateUser(r) ==
  /\ req[r].op = "confirm-payment" /\ req[r].pc = "update"
  /\ LET q == req[r]
     IN  IF ~UserFound(q.uid)
           THEN /\ req' = [req EXCEPT ![r] = Respond(q, 500, "Failed to confirm payment")]
                /\ UNCHANGED user
         ELSE /\ user' = CASE q.ver = 1 ->
                                PaidAccountUpdate1(user, q.packageId,
                                                   Get(PackageData(q.packageId)),
                                                   q.stamp, q.expiryDate)
                           [] q.ver = 2 ->
                                PaidAccountUpdate2(user, q.packageId, q.stamp)
                           [] OTHER ->
                                PaidAccountUpdate(user, q.packageId,
                                                  Get(PackageData(q.packageId)),
                                                  q.stamp, q.expiryDate)
              /\ req' = [req EXCEPT ![r] = Respond(q, 200, "")]
  /\ UNCHANGED <<posts, others>>

\* ------------------------------- PUT /profile/:uid and PUT /users/:userId
UpdateRoutes == {"put-profile", "put-user"}

\* The validation of req.body, then await usersRef.where("uid", "==", uid).get().
ProfileReadUser(r, route, uid, updates) ==
  /\ CanStart(r)
  /\ LET q == [req[r] EXCEPT !.op = route, !.uid = uid]
     IN  req' = [req EXCEPT ![r] =
                   IF ~updates.valid THEN Respond(q, 400, "First name cannot be empty")
                   ELSE IF ~UserFound(uid) THEN Respond(q, 404, "User not found")
                   ELSE [q EXCEPT !.pc = "update", !.userData = Some(user),
                                  !.updates = updates]]
  /\ UNCHANGED <<user, posts, others>>

\* firestoreUpdates = {...updates, updatedAt: new Date().toISOString()}
FirestoreUpdates(userData, updates, t) ==
  [f \in DOMAIN userData |->
     IF f = "updatedAt" THEN Some(t)
     ELSE IF f \in updates.fields THEN updates.values[f]
     ELSE userData[f]]

\* await userDocRef.update(firestoreUpdates), then the 200 response.
ProfileUpdate(r) ==
  /\ req[r].op \in UpdateRoutes /\ req[r].pc = "update"
  /\ user' = FirestoreUpdates(user, req[r].updates, now)
  /\ req' = [req EXCEPT ![r] = Respond(req[r], 200, "")]
  /\ UNCHANGED <<posts, others>>

\* ------------------------------------------------------------ the system
\* An account that an earlier paid activation of packageId left behind.
ActivatedAccount(packageId) ==
  PaidAccountUpdate(FreshAccount, packageId, Get(PackageData(packageId)), Clock[1],
                    ExpiryDate(Clock[1], Get(PackageData(packageId)).duration))

\* An account that an earlier free activation of PKG-FREE left behind.
FreeActivatedAccount ==
  FreeAccountUpdate(FreshAccount, "PKG-FREE", Get(PackageData("PKG-FREE")), Clock[1],
                    ExpiryDate(Clock[1], Get(PackageData("PKG-FREE")).duration))

InitAccounts ==
  {FreshAccount, FreeActivatedAccount} \cup {ActivatedAccount(p) : p \in PackageIds}

Init ==
  /\ packages = PackageStore
  /\ user \in InitAccounts
  /\ posts = [p \in PostIds |-> FreshPost]
  /\ intents = <<[status |-> "requires_payment_method", packageId |-> "PKG-PRO",
                  userId |-> UserId, amount |-> 10]>>
  /\ payments = <<>>
  /\ subscriptions = <<>>
  /\ tick = 1
  /\ req = [r \in Req |-> IdleReq]

\* The steps of the handlers of src/routes/task.js for request r.
TaskNext(r) ==
  \/ \E uid \in {UserId, NoUser} :
       \/ GetStorage(r, uid)
       \/ GroupReadUser(r, uid)
       \/ PostReadUser(r, uid)
       \/ \E postId \in PostIds \cup {NoPost} : TasksReadPost(r, uid, postId)
  \/ GroupUpdate(r)
  \/ PostReadPackage(r)
  \/ PostUpdate(r)
  \/ TasksReadUser(r)
  \/ TasksReadPackage(r)
  \/ TasksGenerate(r)
  \/ TasksSavePost(r)
  \/ TasksSaveTasks(r)
  \/ TasksUpdateLimits(r)

\* POST /create-payment-intent for request r: the validation and the free branch.
FreeIntentNext(r) ==
  \/ \E uid \in {UserId, NoUser} :
       \/ CreateIntentInvalid(r, uid)
       \/ \E packageId \in PackageIds \cup {NoPackage} :
            CreateIntentReadPackage(r, uid, packageId)
  \/ CreateIntentReadUser(r)
  \/ CreateIntentUpdateUser(r)
  \/ CreateIntentAddSubscription(r)

\* POST /create-payment-intent for request r: the paid branch.
PaidIntentNext(r) ==
  \E uid \in {UserId, NoUser}, packageId \in PackageIds \cup {NoPackage},
     amount \in Amounts : CreateIntentPaid(r, uid, packageId, amount)

\* POST /confirm-payment for request r.
ConfirmNext(r) ==
  \/ \E ver \in Versions :
       \/ ConfirmInvalid(r, ver)
       \/ \E i \in 1..Len(intents) : ConfirmRetrieve(r, ver, i)
  \/ ConfirmReadPackage(r)
  \/ ConfirmAddPayment(r)
  \/ ConfirmAddSubscription(r)
  \/ ConfirmReadUser(r)
  \/ ConfirmUpdateUser(r)

StripeNext ==
  \E i \in 1..Len(intents), status \in StripeStatuses : StripeUpdate(i, status)

\* The entitlement and payment routes: requests of every kind, overlapping.
Next ==
  \/ Tick
  \/ StripeNext
  \/ \E r \in Req :
       TaskNext(r) \/ FreeIntentNext(r) \/ PaidIntentNext(r) \/ ConfirmNext(r)

Spec == Init /\ [][Next]_vars

\* ------------------------------------------------- the activation requests
\* Only the requests that activate a package are made, within one day: free
\* activations, and confirmations of the intent Stripe already holds.
ActivateNext ==
  \/ StripeNext
  \/ \E r \in Req : FreeIntentNext(r) \/ ConfirmNext(r)

ActivateSpec == Init /\ [][ActivateNext]_vars

\* ---------------------------------------------- the confirmation requests
\* Only confirm-payment requests are made, within one day, for two intents
\* Stripe holds: one whose metadata names the account, one whose metadata
\* names a user without an account.
ConfirmInit ==
  /\ packages = PackageStore
  /\ user = FreshAccount
  /\ posts = [p \in PostIds |-> FreshPost]
  /\ intents = <<[status |-> "requires_payment_method", packageId |-> "PKG-PRO",
                  userId |-> UserId, amount |-> 10],
                 [status |-> "requires_payment_method", packageId |-> "PKG-PRO",
                  userId |-> NoUser, amount |-> 10]>>
  /\ payments = <<>>
  /\ subscriptions = <<>>
  /\ tick = 1
  /\ req = [r \in Req |-> IdleReq]

ConfirmOnlyNext ==
  \/ StripeNext
  \/ \E r \in Req : ConfirmNext(r)

ConfirmSpec == ConfirmInit /\ [][ConfirmOnlyNext]_vars

\* ------------------------------------------------- the profile requests
\* One request to an update endpoint is made, on either day, with a body that
\* names some of these fields and gives them the values of an activated
\* account.
BodyFields == {"subscriptionStatus", "expiryDate", "remainingPosts", "trialPackage"}

Bodies ==
  [valid : BOOLEAN, fields : SUBSET BodyFields, values : {ActivatedAccount("PKG-PRO")}]

ProfileInit ==
  /\ packages = PackageStore
  /\ user \in InitAccounts
  /\ posts = [p \in PostIds |-> FreshPost]
  /\ intents = <<>>
  /\ payments = <<>>
  /\ subscriptions = <<>>
  /\ tick = 1
  /\ req = [r \in Req |-> IdleReq]

ProfileNext ==
  \/ Tick
  \/ \E route \in UpdateRoutes, uid \in {UserId, NoUser}, updates \in Bodies :
       ProfileReadUser(1, route, uid, updates)
  \/ ProfileUpdate(1)

ProfileSpec == ProfileInit /\ [][ProfileNext]_vars

\* -------------------------------------------------- the consume requests
\* Only requests to src/routes/task.js are made, within one day, on an
\* account that earlier activations and consumes have left with a quota of
\* up to MaxQuota, or in its trial period.
QuotaAccount(k) ==
  [ActivatedAccount("PKG-PRO") EXCEPT !.remainingPosts = Some(k),
                                      !.remainingPrompts = Some(k),
                                      !.maxGroup = Some(k)]

\* The second definition of /confirm-payment applied to a fresh account.
TrialAccount(packageId) == PaidAccountUpdate2(FreshAccount, packageId, Clock[1])

ConsumeAccounts ==
  {QuotaAccount(k) : k \in 0..MaxQuota}
    \cup {TrialAccount(p) : p \in {"PKG-PRO", NoPackage}}
    \cup {ActivatedAccount("PKG-MAX")}

ConsumeInit ==
  /\ packages = PackageStore
  /\ user \in ConsumeAccounts
  /\ posts = [p \in PostIds |-> FreshPost]
  /\ intents = <<>>
  /\ payments = <<>>
  /\ subscriptions = <<>>
  /\ tick = 1
  /\ req = [r \in Req |-> IdleReq]

ConsumeNext == \E r \in Req : TaskNext(r)

ConsumeSpec == ConsumeInit /\ [][ConsumeNext]_vars

\* ------------------------------------------------- the sequential retries
\* The caller makes its requests to src/routes/task.js one after the other:
\* a request takes a step only while no other request is under way.
RetryNext ==
  \E r \in Req :
    /\ \A q \in Req \ {r} : req[q].pc \in {"idle", "done"}
    /\ TaskNext(r)

RetrySpec == ConsumeInit /\ [][RetryNext]_vars

\* ---------------------------------------------------- the failing writes
\* The requests to src/routes/task.js with a store whose writes can fail
\* once the post document has been updated.
FaultNext ==
  \E r \in Req :
    \/ TaskNext(r)
    \/ TasksSaveTasksFails(r)
    \/ TasksUpdateLimitsFails(r)

FaultSpec == ConsumeInit /\ [][FaultNext]_vars

\* ------------------------------------------------ the overlapping consumes
\* One request more than MaxReq, all of them generate-group or generate-post
\* requests within one day on a paid account with a quota of MaxQuota: a
\* request can be overtaken by two others between its read and its update.
OverlapReq == 1..(MaxReq + 1)

OverlapInit ==
  /\ packages = PackageStore
  /\ user = QuotaAccount(MaxQuota)
  /\ posts = [p \in PostIds |-> FreshPost]
  /\ intents = <<>>
  /\ payments = <<>>
  /\ subscriptions = <<>>
  /\ tick = 1
  /\ req = [r \in OverlapReq |-> IdleReq]

OverlapNext ==
  \E r \in OverlapReq :
    \/ GroupReadUser(r, UserId)
    \/ GroupUpdate(r)
    \/ PostReadUser(r, UserId)
    \/ PostUpdate(r)

OverlapSpec == OverlapInit /\ [][OverlapNext]_vars

\* ------------------------------------------------------ one evaluation
\* One request to src/routes/task.js on an account whose fields hold any
\* combination of values: PUT /profile/:uid and PUT /users/:userId write
\* whatever fields their body names.
ExpiryDates == {Null, Some(20240131), Some(20240302), Some(20250131)}
Counters == {Null} \cup {Some(n) : n \in 0..MaxQuota}

EvalAccounts ==
  {[FreshAccount EXCEPT !.subscriptionStatus = st, !.packageId = pk,
                        !.subscriptionDate = sd, !.expiryDate = ex,
                        !.remainingPosts = a, !.remainingPrompts = b,
                        !.maxGroup = c, !.trialPostsUsed = tu] :
     st \in {Null, Some("active"), Some("inactive")},
     pk \in {Null, Some("PKG-PRO")},
     sd \in {Null, Some(20240302)},
     ex \in ExpiryDates,
     a \in Counters, b \in Counters, c \in Counters,
     tu \in {Null, Some(1)}}

\* One post without tasks, one with its tasks generated.
EvalPosts ==
  [p \in PostIds |->
     IF p = "p1" THEN FreshPost
     ELSE [taskGenerated |-> TRUE, total_tasks |-> Some(2), tasks |-> 2]]

EvalInit ==
  /\ packages = PackageStore
  /\ user \in EvalAccounts
  /\ posts = EvalPosts
  /\ intents = <<>>
  /\ payments = <<>>
  /\ subscriptions = <<>>
  /\ tick = 1
  /\ req = [r \in Req |-> IdleReq]

EvalNext ==
  \/ Tick
  \/ TaskNext(1)

EvalSpec == EvalInit /\ [][EvalNext]_vars

\* ------------------------------------------------- the duration of a package
\* Free activations of PKG-FREE, whose document holds any of the durations
\* below, on a freshly registered account, on either day of the clock.
Durations ==
  {Null, Some(<<>>),
   Some(<<"1", " ", "y", "e", "a", "r">>),
   Some(<<"2", " ", "y", "e", "a", "r", "s">>),
   Some(<<"1", " ", "m", "o", "n", "t", "h">>),
   Some(<<"6", " ", "m", "o", "n", "t", "h", "s">>),
   Some(<<"1", "2", " ", "m", "o", "n", "t", "h", "s">>),
   Some(<<"1", " ", "d", "a", "y">>),
   Some(<<"3", "0", " ", "d", "a", "y", "s">>),
   Some(<<"g", "a", "r", "b", "a", "g", "e">>),
   Some(<<"y", "e", "a", "r">>),
   Some(<<"m", "o", "n", "t", "h">>),
   Some(<<"d", "a", "y", "s">>)}

DurationInit ==
  /\ packages \in {[PackageStore EXCEPT !["PKG-FREE"].duration = d] : d \in Durations}
  /\ user = FreshAccount
  /\ posts = [p \in PostIds |-> FreshPost]
  /\ intents = <<>>
  /\ payments = <<>>
  /\ subscriptions = <<>>
  /\ tick = 1
  /\ req = [r \in Req |-> IdleReq]

DurationNext ==
  \/ Tick
  \/ FreeIntentNext(1)

DurationSpec == DurationInit /\ [][DurationNext]_vars

\* ================================================================ properties
Done(r) == req[r].pc = "done"
Succeeded(r) == Done(r) /\ req[r].status = 200 /\ req[r].error = ""
\* The request got as far as reading the account.
Evaluated(r) == IsSet(req[r].userData)
Snapshot(r) == Get(req[r].userData)

EntitlementOps == {"get-storage", "generate-group", "generate-post", "generate-tasks"}
ConsumeOps == {"generate-group", "generate-post", "generate-tasks"}

\* The counter a consume of kind op checks and decrements in paid mode.
ConsumeCounter(op, acc) ==
  CASE op = "generate-post" -> acc.remainingPosts
    [] op = "generate-tasks" -> acc.remainingPrompts
    [] OTHER -> acc.maxGroup

SetMax(S) == CHOOSE m \in S : \A n \in S : n <= m

\* C1: when all MaxReq requests are paid-mode consumes of one kind that read
\* the same active, unexpired account (and no LLM call failed), exactly
\* min(MaxReq, k) of them have succeeded and the counter is k - min(MaxReq, k),
\* k being the counter before the first of them (the largest value read).
C1_ExactlyMinSucceed ==
  \A op \in ConsumeOps :
    (\A r \in Req :
       /\ Done(r) /\ req[r].op = op /\ Evaluated(r)
       /\ ~req[r].isTrialPeriod
       /\ SubscriptionDenial(Snapshot(r), req[r].now) = ""
       /\ IsSet(ConsumeCounter(op, Snapshot(r)))
       /\ req[r].error # "Task generation failed")
    => LET k == SetMax({Get(ConsumeCounter(op, Snapshot(r))) : r \in Req})
           succeeded == {r \in Req : Succeeded(r)}
       IN  /\ Cardinality(succeeded) = Min(MaxReq, k)
           /\ ConsumeCounter(op, user) = Some(k - Min(MaxReq, k))

\* C2: remainingPosts, remainingPrompts and maxGroup are never negative, and
\* every request about to write a decremented counter read a value greater
\* than 0 for it.
C2_NeverNegative ==
  /\ \A c \in {user.remainingPosts, user.remainingPrompts, user.maxGroup} :
       IsSet(c) => Get(c) >= 0
  /\ \A r \in Req :
       /\ (req[r].op \in {"generate-post", "generate-group"} /\ req[r].pc = "update")
            => /\ IsSet(ConsumeCounter(req[r].op, Snapshot(r)))
               /\ Get(ConsumeCounter(req[r].op, Snapshot(r))) > 0
       /\ (req[r].op = "generate-tasks" /\ ~req[r].isTrialPeriod
             /\ req[r].pc \in {"generate", "savePost", "saveTasks", "limits"})
            => /\ IsSet(Snapshot(r).remainingPrompts)
               /\ Get(Snapshot(r).remainingPrompts) > 0

\* A generate-post that read remainingPosts = 1 has written 0.
C2_Witness ==
  /\ user.remainingPosts = Some(0)
  /\ \E r \in Req : /\ Succeeded(r) /\ req[r].op = "generate-post"
                    /\ Snapshot(r).remainingPosts = Some(1)

\* The free activations of the account that were answered 200.
FreeActivations ==
  {r \in Req : /\ Succeeded(r) /\ req[r].op = "create-payment-intent"
               /\ req[r].amount = 0 /\ req[r].uid = UserId}

\* C3: at most one free activation of the account succeeds.
C3_AtMostOneFreeActivation == Cardinality(FreeActivations) <= 1

\* C4: the step of a free activation that reads an account with
\* trialPackage = true ends the request with 400 "You have already used your
\* trial package" and leaves the account and the subscriptions unchanged.
C4_TrialAlreadyUsed ==
  [][\A r \in Req :
       (/\ req[r].op = "create-payment-intent" /\ req[r].pc = "user"
        /\ req[r].uid = UserId /\ user.trialPackage = Some(TRUE)
        /\ req'[r] # req[r])
       => /\ req'[r].pc = "done" /\ req'[r].status = 400
          /\ req'[r].error = "You have already used your trial package"
          /\ user' = user /\ subscriptions' = subscriptions]_vars

\* A free activation of an existing package was rejected on an account that
\* had used its trial package.
C4_Witness ==
  \E r \in Req :
    /\ Done(r) /\ req[r].op = "create-payment-intent" /\ req[r].amount = 0
    /\ req[r].packageId \in PackageIds /\ Evaluated(r)
    /\ Snapshot(r).trialPackage = Some(TRUE)
    /\ req[r].error = "You have already used your trial package"

NoSubscription == "Active subscription required"
Expired == "Subscription has expired"

\* The request asked for an entitlement check that the handler reaches: the
\* user exists and, for generate-tasks, so does the post, without tasks yet.
ReachesEvaluation(r) ==
  /\ req[r].op \in EntitlementOps /\ req[r].uid = UserId
  /\ req[r].op = "generate-tasks"
       => req[r].postId \in PostIds /\ ~posts[req[r].postId].taskGenerated

\* C5: on an account whose subscriptionStatus is not active every
\* entitlement check is answered 403 "Active subscription required", whatever
\* its expiryDate and counters; no request goes on past the check, and
\* neither the account nor a post is written.
C5_NoSubscriptionDenied ==
  /\ [](\A r \in Req :
          /\ (Done(r) /\ ReachesEvaluation(r)) => Evaluated(r)
          /\ (req[r].op \in EntitlementOps /\ Evaluated(r)
                /\ Snapshot(r).subscriptionStatus # Some("active"))
               => Done(r) /\ req[r].status = 403 /\ req[r].error = NoSubscription)
  /\ [][user.subscriptionStatus # Some("active")
          => user' = user /\ posts' = posts]_vars

\* generate-tasks on a post without tasks was denied on an inactive account
\* that holds quota and an expiry date in the future.
C5_Witness ==
  \E r \in Req :
    /\ Done(r) /\ req[r].op = "generate-tasks" /\ ReachesEvaluation(r)
    /\ Snapshot(r).subscriptionStatus = Some("inactive")
    /\ Snapshot(r).remainingPrompts = Some(1)
    /\ IsSet(Snapshot(r).expiryDate) /\ Get(Snapshot(r).expiryDate) > req[r].now
    /\ req[r].error = NoSubscription

\* The account the request read had an expiry date before the time it read.
ReadExpired(r) ==
  /\ req[r].op \in EntitlementOps /\ Done(r) /\ Evaluated(r)
  /\ IsSet(Snapshot(r).expiryDate)
  /\ Get(Snapshot(r).expiryDate) < req[r].now

\* C6 as stated: every evaluation of an account whose expiryDate is in the
\* past is answered "Subscription has expired".
C6_EveryAccountExpired ==
  \A r \in Req : ReadExpired(r) => req[r].status = 403 /\ req[r].error = Expired

\* C6: every evaluation of an active account whose expiryDate is in the past
\* is answered 403 "Subscription has expired", whatever its counters.
C6_ActiveAccountExpired ==
  \A r \in Req :
    (ReadExpired(r) /\ Snapshot(r).subscriptionStatus = Some("active"))
      => req[r].status = 403 /\ req[r].error = Expired

\* An active account with quota left and an expiry date in the past was
\* denied as expired.
C6_Witness ==
  \E r \in Req :
    /\ ReadExpired(r) /\ Snapshot(r).subscriptionStatus = Some("active")
    /\ req[r].op = "generate-post" /\ Snapshot(r).remainingPosts = Some(1)
    /\ req[r].error = Expired

\* C7: an evaluation of an active account is answered "Subscription has
\* expired" exactly when expiryDate is set and earlier than the time of the
\* evaluation.
C7_ExpiredIffStrictlyPast ==
  \A r \in Req :
    (/\ Done(r) /\ req[r].op \in EntitlementOps /\ Evaluated(r)
     /\ Snapshot(r).subscriptionStatus = Some("active"))
      => (req[r].error = Expired
            <=> /\ IsSet(Snapshot(r).expiryDate)
                /\ Get(Snapshot(r).expiryDate) < req[r].now)

\* An active account whose expiry date is the time of the evaluation was
\* served, and so was one without an expiry date.
C7_Witness ==
  \E r \in Req :
    /\ Succeeded(r) /\ req[r].op = "get-storage"
    /\ Snapshot(r).subscriptionStatus = Some("active")
    /\ Snapshot(r).expiryDate = Some(req[r].now)

\* C8: a trial-mode generate-post or generate-tasks that succeeded has moved
\* trialPostsUsed past the value it read, so that no more than
\* package.trialPosts of them succeed.
C8_TrialConsumeCounts ==
  \A r \in Req :
    (/\ Succeeded(r) /\ req[r].op \in {"generate-post", "generate-tasks"}
     /\ Evaluated(r) /\ req[r].isTrialPeriod)
      => OrZero(user.trialPostsUsed) >= OrZero(Snapshot(r).trialPostsUsed) + 1

\* C9: a paid-mode generate-post or generate-tasks on an active, unexpired
\* account whose counter is null is not denied for exhausted quota.
C9_NullIsUnlimited ==
  \A r \in Req :
    (/\ Done(r) /\ req[r].op \in {"generate-post", "generate-tasks"}
     /\ Evaluated(r) /\ ~req[r].isTrialPeriod
     /\ SubscriptionDenial(Snapshot(r), req[r].now) = ""
     /\ ConsumeCounter(req[r].op, Snapshot(r)) = Null)
      => req[r].error \notin {"No remaining posts available",
                              "No remaining prompts available"}

\* C10: an active account with packageId = P carries the expiry date and the
\* quota fields that the activation of P writes (no request consumes quota).
C10_QuotaOfPackage ==
  (/\ user.subscriptionStatus = Some("active")
   /\ IsSet(user.packageId) /\ IsSet(PackageData(Get(user.packageId))))
    => LET packageData == Get(PackageData(Get(user.packageId)))
       IN  /\ IsSet(user.subscriptionDate) /\ IsSet(user.expiryDate)
           /\ user.remainingPosts = LimitOrNull(packageData.packageLimit)
           /\ user.remainingPrompts = LimitOrNull(packageData.packageLimit)
           /\ user.storage = Some(OrZero(packageData.storage))
           /\ user.maxGroup = Some(OrZero(packageData.maxGroup))

\* C11: the expiry date of an activated account is the time of its activation
\* plus the duration of its package (the requests are served within one day,
\* and none but an activation writes the account).
C11_ExpiryFromActivation ==
  (/\ user.subscriptionStatus = Some("active")
   /\ IsSet(user.packageId) /\ IsSet(PackageData(Get(user.packageId))))
    => /\ IsSet(user.subscriptionDate)
       /\ user.expiryDate =
            Some(ExpiryDate(Get(user.subscriptionDate),
                            Get(PackageData(Get(user.packageId))).duration))

DaysBeforeYear(y) == 365 * (y - 1) + ((y - 1) \div 4) - ((y - 1) \div 100) + ((y - 1) \div 400)
RECURSIVE DaysBeforeMonth(_, _)
DaysBeforeMonth(y, m) ==
  IF m = 1 THEN 0 ELSE DaysBeforeMonth(y, m - 1) + DaysInMonth(y, m - 1)
DayNumber(date) ==
  DaysBeforeYear(Year(date)) + DaysBeforeMonth(Year(date), Month(date)) + Day(date)

\* date plus n calendar months: the same day of the month n months later, the
\* last day of that month when it has no such day.
PlusCalendarMonths(date, n) ==
  LET m0 == Month(date) - 1 + n
      y == Year(date) + (m0 \div 12)
      m == (m0 % 12) + 1
  IN  MkDate(y, m, Min(Day(date), DaysInMonth(y, m)))

\* What the duration strings '<n> year(s)', '<n> month(s)', '<n> day(s)' and
\* 'garbage' of Durations say.
DurationUnit(text) ==
  IF Includes(text, <<"y", "e", "a", "r">>) THEN "year"
  ELSE IF Includes(text, <<"m", "o", "n", "t", "h">>) THEN "month"
  ELSE IF Includes(text, <<"d", "a", "y">>) THEN "day"
  ELSE "none"
HasInteger(text) == \E i \in 1..Len(text) : text[i] \in Digits
Number(text) ==
  CASE text[1] = "1" /\ text[2] = "2" -> 12
    [] text[1] = "3" /\ text[2] = "0" -> 30
    [] text[1] = "1" -> 1
    [] text[1] = "2" -> 2
    [] text[1] = "6" -> 6

\* The package whose free activation the account records, and its time.
Activated == user.subscriptionStatus = Some("active") /\ IsSet(user.packageId)
ActivatedDuration == packages[Get(user.packageId)].duration
ActivationTime == Get(user.subscriptionDate)

\* C13: after an activation with duration '<n> year(s)', '<n> month(s)' or
\* '<n> day(s)' the expiry date is the activation time plus n calendar years,
\* n calendar months or n days; with 'garbage' it is that time plus 1 year.
C13_CalendarDuration ==
  (Activated /\ IsSet(ActivatedDuration) /\ Get(ActivatedDuration) # <<>>
     /\ (HasInteger(Get(ActivatedDuration))
           \/ DurationUnit(Get(ActivatedDuration)) = "none"))
    => LET text == Get(ActivatedDuration)
           expiry == Get(user.expiryDate)
       IN  CASE DurationUnit(text) = "year" ->
                  expiry = PlusCalendarMonths(ActivationTime, 12 * Number(text))
             [] DurationUnit(text) = "month" ->
                  expiry = PlusCalendarMonths(ActivationTime, Number(text))
             [] DurationUnit(text) = "day" ->
                  DayNumber(expiry) = DayNumber(ActivationTime) + Number(text)
             [] OTHER -> expiry = PlusCalendarMonths(ActivationTime, 12)

\* The duration holds no integer, or the package has no duration.
NoInteger ==
  ~IsSet(ActivatedDuration) \/ ~HasInteger(Get(ActivatedDuration))

\* C14 as stated: without an integer in the duration, or without a duration,
\* the expiry date is the activation time plus 1 year.
C14_DefaultOneYear ==
  (Activated /\ NoInteger)
    => user.expiryDate = Some(PlusCalendarMonths(ActivationTime, 12))

\* C14: without an integer 'year' counts as '1 year', 'month' as '1 month'
\* and 'days' as '30 days'; a duration naming no unit, an empty one and a
\* missing one count as '1 year'.
C14_DefaultPerUnit ==
  (Activated /\ NoInteger)
    => LET unit == IF IsSet(ActivatedDuration)
                   THEN DurationUnit(Get(ActivatedDuration)) ELSE "none"
           same == CASE unit = "month" -> <<"1", " ", "m", "o", "n", "t", "h">>
                     [] unit = "day" -> <<"3", "0", " ", "d", "a", "y", "s">>
                     [] OTHER -> <<"1", " ", "y", "e", "a", "r">>
       IN  user.expiryDate = Some(ExpiryDate(ActivationTime, Some(same)))

\* A package with duration 'days' was activated on 2024-03-02 and expires
\* 30 days later, on 2024-04-01.
C14_Witness ==
  /\ Activated /\ ActivatedDuration = Some(<<"d", "a", "y", "s">>)
  /\ ActivationTime = 20240302 /\ user.expiryDate = Some(20240401)

\* C15: a generate-tasks request whose LLM generation is done (it is about to
\* persist, or has persisted, markdown and tasks on the post) has already
\* moved the counter of the account past the value it read: remainingPrompts
\* down in paid mode, trialPostsUsed up in trial mode.
C15_ConsumeBeforeAction ==
  \A r \in Req :
    (req[r].op = "generate-tasks" /\ req[r].pc \in {"savePost", "saveTasks", "limits"})
      => IF req[r].isTrialPeriod
           THEN OrZero(user.trialPostsUsed) > OrZero(Snapshot(r).trialPostsUsed)
         ELSE OrZero(user.remainingPrompts) < Get(Snapshot(r).remainingPrompts)

\* The answers that deny a consume request.
Denials ==
  {"User not found", NoSubscription, Expired, "Trial posts limit exceeded",
   "No remaining posts available", "No remaining prompts available",
   "Group creation not allowed"}

\* C16: a consume request that ends in a denial is denied by a step that
\* comes before any of its writes and that changes neither the account nor a
\* post; once it is denied the account is, field by field and updatedAt
\* included, the document it read, and the posts are as they were.
C16_DenialWritesNothing ==
  /\ [](\A r \in Req :
          (/\ Done(r) /\ req[r].op \in ConsumeOps /\ req[r].error \in Denials
           /\ Evaluated(r))
            => user = Snapshot(r) /\ posts = EvalPosts)
  /\ [][\A r \in Req :
          (/\ req[r].pc # "done" /\ req'[r].pc = "done"
           /\ req'[r].op \in ConsumeOps /\ req'[r].error \in Denials)
            => /\ req[r].pc \in {"idle", "user", "package"}
               /\ user' = user /\ posts' = posts]_vars

\* A trial-mode generate-tasks was denied for the trial limit on the second
\* day, and the account still carries the updatedAt of the first.
C16_Witness ==
  \E r \in Req :
    /\ Done(r) /\ req[r].op = "generate-tasks"
    /\ req[r].error = "Trial posts limit exceeded"
    /\ req[r].now = Clock[2] /\ user.updatedAt = Some(Clock[1])
    /\ ~posts[req[r].postId].taskGenerated

\* A confirm-payment request that retrieves a payment intent while no intent
\* has one of the statuses: it ends at once with a 400 and nothing is written.
RefusedUnless(statuses) ==
  \A r \in Req :
    (/\ req[r].pc = "idle" /\ req'[r].op = "confirm-payment" /\ req'[r].uid # ""
     /\ \A i \in 1..Len(intents) : intents[i].status \notin statuses)
      => /\ req'[r].pc = "done" /\ req'[r].status = 400
         /\ user' = user /\ payments' = payments /\ subscriptions' = subscriptions

\* The records and the account are written by a confirm-payment request that
\* has passed the status check, or by the free branch of create-payment-intent.
WrittenAfterCheck ==
  (user' # user \/ payments' # payments \/ subscriptions' # subscriptions)
    => \E r \in Req :
         \/ req[r].op = "confirm-payment"
              /\ req[r].pc \in {"payment", "subscription", "update"}
         \/ req[r].op = "create-payment-intent"
              /\ req[r].pc \in {"update", "subscription"}

\* C17 as stated: confirm-payment goes on to write only for a payment intent
\* whose status is succeeded; for every other status it answers with an error
\* and writes nothing.
C17_SucceededOnly == [][RefusedUnless({"succeeded"}) /\ WrittenAfterCheck]_vars

\* C17, amended: confirm-payment goes on to write only for a payment intent
\* whose status is succeeded or requires_capture; for every other status it
\* answers with an error and writes nothing.
C17_ConfirmedOnly ==
  [][RefusedUnless({"succeeded", "requires_capture"}) /\ WrittenAfterCheck]_vars

\* A confirm-payment request was refused for an intent that was canceled, and
\* no record exists.
C17_Witness ==
  \E r \in Req :
    /\ Done(r) /\ req[r].op = "confirm-payment" /\ req[r].status = 400
    /\ req[r].error = "Payment not completed"
    /\ intents[1].status = "canceled"
    /\ payments = <<>> /\ subscriptions = <<>>

\* The requests that ended as a successful activation, paid or free.
Activations ==
  {r \in Req : /\ Succeeded(r)
               /\ \/ req[r].op = "confirm-payment"
                  \/ req[r].op = "create-payment-intent" /\ req[r].amount = 0}

\* C18: once every request made has ended as a successful activation, there
\* is one Payment record (with its amount, status completed) and one
\* Subscription record (packageId, userId, status active, expiryDate set) for
\* each of them.
C18_OneRecordEach ==
  (\A r \in Req : r \in Activations)
    => /\ Len(payments) = Cardinality(Activations)
       /\ Len(subscriptions) = Cardinality(Activations)
       /\ \A i \in 1..Len(payments) : payments[i].status = "completed"
       /\ \A i \in 1..Len(subscriptions) :
            /\ subscriptions[i].status = "active"
            /\ subscriptions[i].userId = UserId
            /\ subscriptions[i].packageId \in PackageIds
            /\ IsSet(subscriptions[i].expiryDate)

\* The audit records of the payment intents of user uid.
PaymentOf(uid) == {i \in 1..Len(payments) : payments[i].userId = uid}
ActiveSubscriptionOf(uid) ==
  {i \in 1..Len(subscriptions) :
     subscriptions[i].userId = uid /\ subscriptions[i].status = "active"}

\* C19: a confirm-payment request that has come to the account lookup or to
\* the account update has its Payment and its Subscription record written;
\* one that ended because the account was not found or its update failed
\* ended with an error, never success, and both records exist; no request
\* for a user without an account ends in success.
C19_AuditBeforeAccount ==
  \A r \in Req :
    req[r].op = "confirm-payment" =>
      /\ req[r].pc \in {"user", "update"} =>
           /\ \E i \in PaymentOf(req[r].uid) :
                payments[i].paymentIntentId = req[r].intent
           /\ \E i \in ActiveSubscriptionOf(req[r].uid) :
                subscriptions[i].paymentIntentId = Some(req[r].intent)
      /\ (Done(r) /\ req[r].error \in {"User not found", "Failed to confirm payment"}) =>
           /\ req[r].status \in {400, 500}
           /\ PaymentOf(req[r].uid) # {}
           /\ ActiveSubscriptionOf(req[r].uid) # {}
      /\ (Done(r) /\ req[r].uid = NoUser) => req[r].status # 200

\* The confirmation for a user without an account ended with "User not
\* found": a completed Payment and an active Subscription record name that
\* user, and no account was activated.
C19_Witness ==
  \E r \in Req :
    /\ Done(r) /\ req[r].op = "confirm-payment" /\ req[r].uid = NoUser
    /\ req[r].error = "User not found" /\ req[r].status = 400
    /\ PaymentOf(NoUser) # {} /\ ActiveSubscriptionOf(NoUser) # {}
    /\ user = FreshAccount

\* A counter is raised: it is set above what it was, or set where it was not.
Raised(old, new) == IsSet(new) /\ (~IsSet(old) \/ Get(new) > Get(old))

\* The step sets a subscription field or raises a counter of the account.
SetsSubscription ==
  \/ user'.subscriptionStatus # user.subscriptionStatus
  \/ user'.packageId # user.packageId
  \/ user'.subscriptionDate # user.subscriptionDate
  \/ user'.expiryDate # user.expiryDate
  \/ user'.trialPackage # user.trialPackage
  \/ Raised(user.remainingPosts, user'.remainingPosts)
  \/ Raised(user.remainingPrompts, user'.remainingPrompts)
  \/ Raised(user.maxGroup, user'.maxGroup)

\* C20: a step that sets subscriptionStatus, packageId, subscriptionDate,
\* expiryDate or trialPackage, or that raises remainingPosts, remainingPrompts
\* or maxGroup, is the account update of an activation: of confirm-payment or
\* of the free branch of create-payment-intent.
C20_OnlyActivationSets ==
  [][SetsSubscription
       => \E r \in Req :
            /\ req[r].op \in {"confirm-payment", "create-payment-intent"}
            /\ req[r].pc = "update"]_vars

\* C21: while only consume requests run, no step increases remainingPosts,
\* remainingPrompts or maxGroup, and no step decreases trialPostsUsed.
C21_CountersMonotonic ==
  [][/\ OrZero(user'.remainingPosts) <= OrZero(user.remainingPosts)
     /\ OrZero(user'.remainingPrompts) <= OrZero(user.remainingPrompts)
     /\ OrZero(user'.maxGroup) <= OrZero(user.maxGroup)
     /\ OrZero(user'.trialPostsUsed) >= OrZero(user.trialPostsUsed)]_vars

\* The account without its updatedAt.
Fields(acc) == [acc EXCEPT !.updatedAt = Null]

\* The request ended on an account it read as active and unexpired: it was
\* denied with the answer deny exactly when the counter it read was unset or
\* not above 0, leaving the account as read; and when it succeeded the
\* account is the one it read with that counter, and no other field, one lower.
DecidedBy(r, deny, counter, lowered) ==
  /\ req[r].error = deny <=> (counter = Null \/ Get(counter) <= 0)
  /\ req[r].error = deny => user = Snapshot(r)
  /\ Succeeded(r) => Fields(user) = Fields(lowered)
  /\ ~Succeeded(r) => user = Snapshot(r)

\* C22: on an active, unexpired account a paid-mode generate-post is decided
\* by remainingPosts alone and lowers only remainingPosts by 1, a paid-mode
\* generate-tasks is decided by remainingPrompts alone and lowers only
\* remainingPrompts by 1, and a generate-group, in either mode, is decided by
\* maxGroup alone and lowers only maxGroup by 1.
C22_CountersIndependent ==
  \A r \in Req :
    (/\ Done(r) /\ Evaluated(r)
     /\ Snapshot(r).subscriptionStatus = Some("active")
     /\ ~(IsSet(Snapshot(r).expiryDate) /\ Get(Snapshot(r).expiryDate) < req[r].now))
      => LET acc == Snapshot(r)
         IN  /\ (req[r].op = "generate-post" /\ ~req[r].isTrialPeriod)
                  => DecidedBy(r, "No remaining posts available", acc.remainingPosts,
                       [acc EXCEPT !.remainingPosts = Some(Get(acc.remainingPosts) - 1)])
             /\ (req[r].op = "generate-tasks" /\ ~req[r].isTrialPeriod)
                  => DecidedBy(r, "No remaining prompts available", acc.remainingPrompts,
                       [acc EXCEPT !.remainingPrompts = Some(Get(acc.remainingPrompts) - 1)])
             /\ req[r].op = "generate-group"
                  => DecidedBy(r, "Group creation not allowed", acc.maxGroup,
                       [acc EXCEPT !.maxGroup = Some(Get(acc.maxGroup) - 1)])

\* A paid-mode post succeeded on remainingPosts = 1 while remainingPrompts
\* and maxGroup were 0, and only remainingPosts went down.
C22_Witness ==
  \E r \in Req :
    /\ Succeeded(r) /\ req[r].op = "generate-post" /\ ~req[r].isTrialPeriod
    /\ Snapshot(r).remainingPosts = Some(1)
    /\ Snapshot(r).remainingPrompts = Some(0) /\ Snapshot(r).maxGroup = Some(0)
    /\ user.remainingPosts = Some(0)
    /\ user.remainingPrompts = Some(0) /\ user.maxGroup = Some(0)

\* The generate-tasks requests that generated and stored tasks for post p.
Generated(p) ==
  {r \in Req : Succeeded(r) /\ req[r].op = "generate-tasks" /\ req[r].postId = p}

\* C23: with the requests made one after the other, at most one
\* generate-tasks request per post generates tasks and is charged; a
\* generate-tasks request changes the account only in its last step, when the
\* post already holds taskGenerated, total_tasks and the tasks it generated;
\* and a request for a post that has taskGenerated = true answers at once
\* with the stored result and changes neither the account nor the post.
C23_ChargedOncePerPost ==
  /\ [](\A p \in PostIds : Cardinality(Generated(p)) <= 1)
  /\ [][\A r \in Req :
          /\ (/\ req[r].op = "generate-tasks" /\ req'[r] # req[r] /\ user' # user)
               => /\ req[r].pc = "limits" /\ req'[r].pc = "done"
                  /\ posts[req[r].postId].taskGenerated
                  /\ posts[req[r].postId].total_tasks = Some(req[r].tasks)
                  /\ posts[req[r].postId].tasks = req[r].tasks
          /\ (/\ req[r].pc = "idle" /\ req'[r].op = "generate-tasks"
              /\ req'[r].uid = UserId /\ req'[r].postId \in PostIds
              /\ posts[req'[r].postId].taskGenerated)
               => /\ req'[r].pc = "done" /\ req'[r].status = 200
                  /\ req'[r].error = "Tasks already generated"
                  /\ user' = user /\ posts' = posts]_vars

\* The first request generated the tasks of p1 and took one prompt; the
\* retry was answered with the stored tasks and the counter stayed.
C23_Witness ==
  /\ Succeeded(1) /\ req[1].op = "generate-tasks" /\ req[1].postId = "p1"
  /\ ~req[1].isTrialPeriod
  /\ Done(2) /\ req[2].op = "generate-tasks" /\ req[2].postId = "p1"
  /\ req[2].error = "Tasks already generated"
  /\ user.remainingPrompts = Some(Get(Snapshot(1).remainingPrompts) - 1)

\* The account is in trial mode as the specification defines it.
TrialMode(acc) ==
  /\ acc.subscriptionDate # Null /\ acc.packageId # Null
  /\ (acc.expiryDate = Null \/ Get(acc.subscriptionDate) > Get(acc.expiryDate))

\* C24: a generate-post or generate-tasks request takes the trial check
\* exactly when the account it read is in trial mode; once the check is made
\* the request is refused with "Trial posts limit exceeded" exactly when a
\* package matches account.packageId and trialPostsUsed is not below its
\* trialPosts, so that without a matching package it goes on whatever
\* trialPostsUsed is; a generate-post that is not refused succeeds.
C24_TrialFailOpen ==
  \A r \in Req :
    (req[r].op \in {"generate-post", "generate-tasks"} /\ Evaluated(r)) =>
      LET acc == Snapshot(r)
          found == Get(acc.packageId) \in DOMAIN packages
          refused == Done(r) /\ req[r].error = "Trial posts limit exceeded"
      IN  /\ req[r].isTrialPeriod <=> TrialMode(acc)
          /\ refused => req[r].isTrialPeriod /\ req[r].status = 403
          /\ (req[r].isTrialPeriod /\ req[r].pc # "package") =>
               /\ ~found => ~refused
               /\ found =>
                    (~refused <=> OrZero(acc.trialPostsUsed)
                                    < OrZero(packages[Get(acc.packageId)].trialPosts))
               /\ (~refused /\ req[r].op = "generate-post") => Succeeded(r)

\* A trial-mode request on an account whose packageId matches no package and
\* whose trialPostsUsed is already 1 was let through and completed.
C24_Witness ==
  \E r \in Req :
    /\ Succeeded(r) /\ req[r].isTrialPeriod
    /\ Snapshot(r).packageId = Some(NoPackage)
    /\ Snapshot(r).trialPostsUsed = Some(1)

\* C25: every account is as registration or an activation left its
\* subscription fields; a generate-post or generate-tasks request that read
\* it and passed the status and expiry checks is not in trial mode, and
\* trialPostsUsed is never written.
C25_ActivatedNeverTrial ==
  /\ \A r \in Req :
       (/\ req[r].op \in {"generate-post", "generate-tasks"} /\ Evaluated(r)
        /\ ~(Done(r) /\ req[r].error \in {NoSubscription, Expired}))
         => ~req[r].isTrialPeriod
  /\ user.trialPostsUsed = Null

\* C26: whatever number of times a payment intent is confirmed, the payments
\* and the subscriptions collection each hold at most one record of it.
C26_OneRecordPerIntent ==
  \A i \in 1..Len(intents) :
    /\ Cardinality({k \in 1..Len(payments) : payments[k].paymentIntentId = i}) <= 1
    /\ Cardinality({k \in 1..Len(subscriptions) :
                      subscriptions[k].paymentIntentId = Some(i)}) <= 1

\* C27: a step of a create-payment-intent request that writes the account
\* is made for a package whose price is 0.
C27_FreeOnlyForPriceZero ==
  [][\A r \in Req :
       (req[r].op = "create-payment-intent" /\ req'[r] # req[r] /\ user' # user)
         => packages[req[r].packageId].price = 0]_vars

\* C28: when the two requests made are a confirm-payment of the third
\* definition, which refilled remainingPosts to the packageLimit of its
\* package, and a paid-mode generate-post, and both succeeded, then
\* remainingPosts is that packageLimit less the post if the post was taken
\* after the activation, and that packageLimit if it was taken before.
C28_RefillNotLost ==
  \A a, c \in Req :
    (/\ Succeeded(a) /\ req[a].op = "confirm-payment" /\ req[a].ver = 3
     /\ Succeeded(c) /\ req[c].op = "generate-post" /\ ~req[c].isTrialPeriod
     /\ IsSet(packages[req[a].packageId].packageLimit))
      => LET L == Get(packages[req[a].packageId].packageLimit)
         IN  user.remainingPosts \in {Some(L), Some(L - 1)}

\* C29: once every request has ended, a post with taskGenerated = true holds
\* exactly total_tasks tasks, written by one generate-tasks request.
C29_TasksWrittenOnce ==
  (\A r \in Req : Done(r))
    => \A p \in PostIds :
         /\ Cardinality(Generated(p)) <= 1
         /\ posts[p].taskGenerated => posts[p].tasks = Get(posts[p].total_tasks)

\* C30: when the only request made, a generate-tasks, has ended and its post
\* has taskGenerated = true, the account was charged for it: trialPostsUsed
\* is one above, or remainingPrompts one below, what the request read.
C30_GeneratedImpliesCharged ==
  (/\ Done(1) /\ req[1].op = "generate-tasks" /\ req[1].uid = UserId
   /\ req[1].postId \in PostIds
   /\ \A r \in Req \ {1} : req[r].pc = "idle")
    => (posts[req[1].postId].taskGenerated
          => /\ Evaluated(1)
             /\ IF req[1].isTrialPeriod
                  THEN user.trialPostsUsed
                         = Some(OrZero(Snapshot(1).trialPostsUsed) + 1)
                ELSE user.remainingPrompts
                       = Some(Get(Snapshot(1).remainingPrompts) - 1))

====
